---- MODULE Spec2Model ----
(***************************************************************************)
(* Model of go-shell: Exec/Cmd (command.go) and Process (process.go).      *)
(* One OS child process per controller, one reaper goroutine per           *)
(* controller, caller goroutines running Wait / Stop / Kill / Restart.     *)
(***************************************************************************)
EXTENDS Naturals, Integers, Sequences, FiniteSets, TLC

(* ------------------------------ bounds --------------------------------- *)
MaxProcs == 2
NumThreads == 2
MaxCalls == 2
MaxStarts == 1
MaxSeqCalls == 1

(* capacity of exitCh: make(chan error, 1) *)
ExitChCap == 1

Procs == 1..MaxProcs
Threads == 1..NumThreads

(* ------------------------------ values --------------------------------- *)
Nil == "nil"
ErrExit == "exit status 7"
ErrInterrupt == "signal: interrupt"
ErrKilled == "signal: killed"
ErrPerm == "operation not permitted"
ErrLaunch == "fork/exec: resource temporarily unavailable"
ErrDone == "os: process already finished"

(* a variant that never recognises os.ErrProcessDone *)
isProcessDoneNever(res) == FALSE

(* a variant that takes every error of a signal send for os.ErrProcessDone *)
isProcessDoneAlways(res) == TRUE

(* errors.Is(err, os.ErrProcessDone): the outcome "done" of a signal send *)
isProcessDone(res) == res = "done"

isInterrupt(err) == err # Nil /\ err = "signal: interrupt"

(* a variant that never recognises "signal: killed" *)
isKilledNever(err) == FALSE

isKilled(err) == err # Nil /\ err = "signal: killed"

(* ---------------------------- descriptors ------------------------------ *)
(* exec.LookPath as exec.Command applies it: a bare name is resolved, a   *)
(* name holding a path separator is used as it is.                        *)
LookPath(name) == IF name = "sh" THEN "/bin/sh" ELSE name

ExecCommand(name, args) ==
    [path |-> LookPath(name), args |-> <<name>> \o args, env |-> "nil",
     stdin |-> "nil", stdout |-> "nil", stderr |-> "nil", extra |-> <<>>,
     dir |-> ""]

(* New(dir): an executor with the inherited environment and stdio. *)
New(dir) ==
    [Dir |-> dir, Env |-> "environ", Stderr |-> "os.Stderr",
     Stdout |-> "os.Stdout", Stdin |-> "os.Stdin"]

(* Exec.Command *)
Command(c, name, args) ==
    [ExecCommand(name, args) EXCEPT !.dir = c.Dir, !.env = c.Env,
        !.stderr = c.Stderr, !.stdout = c.Stdout, !.stdin = c.Stdin]

(* The program behind a path: the test child calls signal.Notify for      *)
(* os.Interrupt some time after it was started, and ignores it from then   *)
(* on; before that an interrupt ends it, as it ends any other program.     *)
IgnoresInterrupt(path) == path = "/t/child"

(* Descriptors processes are started from: two built by an executor (one  *)
(* with overridden fields, as the tests do), and hand-built exec.Cmd       *)
(* values converted to Cmd, one of them with no Args.                        *)
Descs ==
    { Command([New("/tmp/d") EXCEPT !.Stdout = "buf", !.Stderr = "discard",
                                    !.Env = "environ+token"],
              "sh", <<"-c", "exit 0">>),
      [ExecCommand("/t/child", <<"-test.run=X">>) EXCEPT
          !.stdout = "discard", !.stderr = "discard", !.extra = <<"fd3">>],
      [ExecCommand("/bin/sh", <<>>) EXCEPT !.args = <<>>] }

NoDesc == [path |-> "", args |-> <<>>, env |-> "nil", stdin |-> "nil",
           stdout |-> "nil", stderr |-> "nil", extra |-> <<>>, dir |-> ""]

(* ------------------------------- state --------------------------------- *)
VARIABLES
    nprocs,     \* number of controllers created so far
    cmd,        \* cmd[p]: Process.cmd, the descriptor of controller p
    parent,     \* parent[p]: controller whose Restart created p (0: made by
                \* Start, -1: made by Run, which keeps it to itself)
    os,         \* os[p]: "none" | "running" | "zombie" | "reaped"
    status,     \* status[p]: what cmd.Wait() reports once the process exited
    pend,       \* pend[p]: signal delivered to the running process
    notified,   \* notified[p]: the running process has reached signal.Notify
                \* for the interrupt, which it ignores from then on
    reaper,     \* reaper[p]: position of the goroutine p.wait()
    exitCh,     \* exitCh[p]: buffer of the channel
    closed,     \* closed[p]: channel closed
    once,       \* once[p]: "idle" | "running" | "done" (sync.Once)
    onceErr,    \* onceErr[p]: onceError.err
    calls,      \* calls made on controllers so far
    starts,     \* calls of Cmd.Start and Cmd.Run so far
    \* per goroutine: position, operation, controller, whether the deadline
    \* fires, returned error, expectError, received error, controller returned
    pc, op, tgt, fires, ret, expect, got, newp,
    \* history, per goroutine: no other call was in progress on the
    \* controller during this call; the process ran when the deadline fired;
    \* who had drained the channel, what the Once held and how many signals
    \* had been sent when the call began
    solo, firedRunning, atCall,
    \* history, per controller: calls made, runs of the once body, errors
    \* returned by once.Do, signals sent, who received the reaper's value
    ncalls, bodyRuns, doRets, sigLog, drainedBy,
    \* history, per controller: an interrupt reached the process after its
    \* signal.Notify and was ignored
    ignored

procVars == <<nprocs, cmd, parent, os, status, pend, notified, reaper,
              exitCh, closed, once, onceErr, calls, starts>>
thrVars == <<pc, op, tgt, fires, ret, expect, got, newp>>
histVars == <<solo, firedRunning, atCall, ncalls, bodyRuns, doRets, sigLog,
              drainedBy, ignored>>
vars == <<procVars, thrVars, histVars>>

Errs == {Nil, ErrExit, ErrInterrupt, ErrKilled, ErrPerm, ErrLaunch, ErrDone}

NoCall == [drained |-> "none", once |-> "idle", err |-> Nil, sigs |-> 0]

InProgress(t) == pc[t] \notin {"idle", "done", "panic"}

Init ==
    /\ nprocs = 0
    /\ cmd = [p \in Procs |-> NoDesc]
    /\ parent = [p \in Procs |-> 0]
    /\ os = [p \in Procs |-> "none"]
    /\ status = [p \in Procs |-> Nil]
    /\ pend = [p \in Procs |-> "none"]
    /\ notified = [p \in Procs |-> FALSE]
    /\ reaper = [p \in Procs |-> "none"]
    /\ exitCh = [p \in Procs |-> <<>>]
    /\ closed = [p \in Procs |-> FALSE]
    /\ once = [p \in Procs |-> "idle"]
    /\ onceErr = [p \in Procs |-> Nil]
    /\ calls = 0
    /\ starts = 0
    /\ pc = [t \in Threads |-> "idle"]
    /\ op = [t \in Threads |-> "none"]
    /\ tgt = [t \in Threads |-> 0]
    /\ fires = [t \in Threads |-> FALSE]
    /\ ret = [t \in Threads |-> Nil]
    /\ expect = [t \in Threads |-> "none"]
    /\ got = [t \in Threads |-> Nil]
    /\ newp = [t \in Threads |-> 0]
    /\ solo = [t \in Threads |-> FALSE]
    /\ firedRunning = [t \in Threads |-> FALSE]
    /\ atCall = [t \in Threads |-> NoCall]
    /\ ncalls = [p \in Procs |-> 0]
    /\ bodyRuns = [p \in Procs |-> 0]
    /\ doRets = [p \in Procs |-> {}]
    /\ sigLog = [p \in Procs |-> <<>>]
    /\ drainedBy = [p \in Procs |-> "none"]
    /\ ignored = [p \in Procs |-> FALSE]

(* a run-time panic ends the whole program *)
Crashed ==
    \/ \E t \in Threads : pc[t] = "panic"
    \/ \E p \in Procs : reaper[p] = "panic"

(* a call has just returned and its goroutine was not yet freed *)
Returning == \E t \in Threads : pc[t] = "done"

(* the program runs: no panic, and no return is being handed over *)
Live == ~Crashed /\ ~Returning

(* ------------------------- the operating system ------------------------ *)
(* Outcomes of os.Process.Signal(sig) / Kill(): "done" is os.ErrProcessDone *)
(* (always, once the process was reaped; possibly, once it has exited),    *)
(* "err" any other error (the signal is not supported, not permitted),     *)
(* "ok" the signal was sent.                                               *)
SendOutcomes(p) ==
    IF os[p] = "reaped" THEN {"done"}
    ELSE IF os[p] = "zombie" THEN {"ok", "done", "err"}
    ELSE {"ok", "err"}

(* Effect of a sent signal on a running process: kill overrides interrupt. *)
Deliver(p, sig, r) ==
    IF r = "ok" /\ os[p] = "running"
    THEN (IF sig = "kill" \/ pend[p] = "none" THEN sig ELSE pend[p])
    ELSE pend[p]

(* sp.Signal(sig) with outcome r, as the controller's signal log records it *)
Send(p, sig, r) ==
    /\ r \in SendOutcomes(p)
    /\ sigLog' = [sigLog EXCEPT ![p] =
                     Append(@, [sig |-> sig, res |-> r])]
    /\ pend' = [pend EXCEPT ![p] = Deliver(p, sig, r)]
    /\ ignored' = [ignored EXCEPT ![p] =
                      @ \/ (sig = "int" /\ r = "ok"
                            /\ os[p] = "running" /\ notified[p])]

(* The process ends on its own, with status 0 or a non-zero status (a      *)
(* process a kill signal was delivered to runs no further). Its signal     *)
(* handling ends with it.                                                  *)
NaturalExit(p, s) ==
    /\ os[p] = "running"
    /\ Live
    /\ pend[p] # "kill"
    /\ s \in {Nil, ErrExit}
    /\ os' = [os EXCEPT ![p] = "zombie"]
    /\ status' = [status EXCEPT ![p] = s]
    /\ pend' = [pend EXCEPT ![p] = "none"]
    /\ UNCHANGED <<nprocs, cmd, parent, reaper, exitCh,
                   closed, once, onceErr, calls, starts, thrVars, histVars>>
    /\ notified' = [notified EXCEPT ![p] = FALSE]

(* The process dies of a pending signal: of a kill, or of an interrupt that *)
(* reached it before it had run signal.Notify (an interrupt that reaches   *)
(* it afterwards is ignored).                                              *)
SignalDeath(p) ==
    /\ os[p] = "running"
    /\ Live
    /\ \/ pend[p] = "kill"
       \/ pend[p] = "int" /\ ~notified[p]
    /\ os' = [os EXCEPT ![p] = "zombie"]
    /\ status' = [status EXCEPT ![p] =
                     IF pend[p] = "kill" THEN ErrKilled ELSE ErrInterrupt]
    /\ pend' = [pend EXCEPT ![p] = "none"]
    /\ UNCHANGED <<nprocs, cmd, parent, reaper, exitCh,
                   closed, once, onceErr, calls, starts, thrVars, histVars>>
    /\ notified' = [notified EXCEPT ![p] = FALSE]

(* The process reaches signal.Notify(sigs, os.Interrupt): from here on it   *)
(* ignores the interrupt. An interrupt that was delivered before ends it.  *)
SignalNotify(p) ==
    /\ os[p] = "running"
    /\ Live
    /\ IgnoresInterrupt(cmd[p].path)
    /\ ~notified[p]
    /\ pend[p] # "int"
    /\ notified' = [notified EXCEPT ![p] = TRUE]
    /\ UNCHANGED <<nprocs, cmd, parent, os, status, pend, reaper, exitCh,
                   closed, once, onceErr, calls, starts, thrVars, histVars>>

(* ------------------------------ the reaper ----------------------------- *)
(* p.wait(), first half: p.cmd.exec().Wait() returns once the process exited *)
ReaperReap(p) ==
    /\ reaper[p] = "wait"
    /\ Live
    /\ os[p] = "zombie"
    /\ os' = [os EXCEPT ![p] = "reaped"]
    /\ reaper' = [reaper EXCEPT ![p] = "send"]
    /\ UNCHANGED <<nprocs, cmd, parent, status, pend, exitCh,
                   closed, once, onceErr, calls, starts, thrVars, histVars>>
    /\ UNCHANGED notified

(* an unbuffered channel: a send goes through only to a waiting receiver *)
CanSendUnbuffered(p) ==
    \/ closed[p]
    \/ /\ Len(exitCh[p]) < ExitChCap
       /\ \E t \in Threads :
             tgt[t] = p /\ pc[t] \in {"select", "s_select", "k_recv"}

(* a send blocks while the buffer is full; on a closed channel it panics *)
CanSend(p) == closed[p] \/ Len(exitCh[p]) < ExitChCap

(* p.wait(), second half: p.exitCh <- result *)
ReaperSend(p) ==
    /\ reaper[p] = "send"
    /\ Live
    /\ CanSend(p)
    /\ IF closed[p]
       THEN /\ reaper' = [reaper EXCEPT ![p] = "panic"]
            /\ UNCHANGED exitCh
       ELSE /\ reaper' = [reaper EXCEPT ![p] = "done"]
            /\ exitCh' = [exitCh EXCEPT ![p] = Append(@, status[p])]
    /\ UNCHANGED <<nprocs, cmd, parent, os, status, pend, closed,
                   once, onceErr, calls, starts, thrVars, histVars>>
    /\ UNCHANGED notified

(* The next call is made by the idle goroutine of least index (goroutines  *)
(* are interchangeable).                                                   *)
CanCall(t) ==
    /\ pc[t] = "idle"
    /\ Live
    /\ \A u \in Threads : u < t => pc[u] # "idle"

(* ------------------------------- Cmd.Start ----------------------------- *)
(* newProcess(c) and go p.wait(): controller q over a fresh process *)
newProcess(q, d, par) ==
    /\ nprocs' = q
    /\ cmd' = [cmd EXCEPT ![q] = d]
    /\ parent' = [parent EXCEPT ![q] = par]
    /\ os' = [os EXCEPT ![q] = "running"]
    /\ reaper' = [reaper EXCEPT ![q] = "wait"]
    /\ exitCh' = [exitCh EXCEPT ![q] = <<>>]
    /\ closed' = [closed EXCEPT ![q] = FALSE]

(* Cmd.Start, and Cmd.Run: Start, then p.Wait(ctx) on the new controller *)
CmdStart(t, d, o, f) ==
    /\ CanCall(t)
    /\ o \in {"Start", "Run"}
    /\ o = "Start" => ~f
    /\ starts < MaxStarts
    /\ starts' = starts + 1
    /\ \/ /\ nprocs < MaxProcs            \* c.exec().Start() succeeded
          /\ newProcess(nprocs + 1, d, IF o = "Run" THEN -1 ELSE 0)
          /\ op' = [op EXCEPT ![t] = o]
          /\ fires' = [fires EXCEPT ![t] = f]
          /\ tgt' = [tgt EXCEPT ![t] = nprocs + 1]
          /\ newp' = [newp EXCEPT ![t] = IF o = "Run" THEN 0 ELSE nprocs + 1]
          /\ pc' = [pc EXCEPT ![t] = IF o = "Run" THEN "select" ELSE "done"]
          /\ ncalls' = [ncalls EXCEPT ![nprocs + 1] =
                           IF o = "Run" THEN 1 ELSE 0]
          /\ solo' = [solo EXCEPT ![t] = TRUE]
          /\ UNCHANGED ret
       \/ /\ op' = [op EXCEPT ![t] = o]    \* c.exec().Start() failed
          /\ ret' = [ret EXCEPT ![t] = ErrLaunch]
          /\ pc' = [pc EXCEPT ![t] = "done"]
          /\ UNCHANGED <<nprocs, cmd, parent, os, reaper, exitCh, closed,
                         ncalls, fires, tgt, newp, solo, atCall>>
    /\ UNCHANGED <<status, pend, once, onceErr, calls, expect, got,
                   firedRunning, atCall, bodyRuns, doRets, sigLog, drainedBy>>
    /\ UNCHANGED <<notified, ignored>>

(* --------------------- calls on a controller --------------------------- *)
(* A goroutine calls Wait(ctx), Stop(ctx), Kill() or Restart(ctx) on p;    *)
(* f: the context's deadline fires at some point (FALSE: it never does).   *)
Call(t, o, p, f) ==
    /\ CanCall(t)
    /\ o \in {"Wait", "Stop", "Kill", "Restart"}
    /\ p \in 1..nprocs
    /\ parent[p] >= 0
    /\ o = "Kill" => ~f
    /\ \/ calls < MaxCalls
       \/ calls < MaxCalls + MaxSeqCalls /\ \A u \in Threads : pc[u] = "idle"
    /\ ncalls' = [ncalls EXCEPT ![p] = @ + 1]
    /\ calls' = calls + 1
    /\ pc' = [pc EXCEPT ![t] = IF o = "Wait" THEN "select" ELSE "once"]
    /\ op' = [op EXCEPT ![t] = o]
    /\ tgt' = [tgt EXCEPT ![t] = p]
    /\ fires' = [fires EXCEPT ![t] = f]
    /\ solo' = [u \in Threads |->
                  IF u = t
                  THEN \A v \in Threads \ {t} : ~(InProgress(v) /\ tgt[v] = p)
                  ELSE IF InProgress(u) /\ tgt[u] = p THEN FALSE
                  ELSE solo[u]]
    /\ atCall' = [atCall EXCEPT ![t] =
                     [drained |-> drainedBy[p], once |-> once[p],
                      err |-> onceErr[p], sigs |-> Len(sigLog[p])]]
    /\ UNCHANGED <<nprocs, cmd, parent, os, status, pend, reaper,
                   exitCh, closed, once, onceErr, starts, ret, expect, got,
                   newp, firedRunning, bodyRuns, doRets, sigLog, drainedBy>>
    /\ UNCHANGED <<notified, ignored>>

(* The call of goroutine t has returned to its caller; the goroutine is    *)
(* free for the next call.                                                 *)
Retire(t) ==
    /\ pc[t] = "done"
    /\ pc' = [pc EXCEPT ![t] = "idle"]
    /\ op' = [op EXCEPT ![t] = "none"]
    /\ tgt' = [tgt EXCEPT ![t] = 0]
    /\ fires' = [fires EXCEPT ![t] = FALSE]
    /\ ret' = [ret EXCEPT ![t] = Nil]
    /\ expect' = [expect EXCEPT ![t] = "none"]
    /\ got' = [got EXCEPT ![t] = Nil]
    /\ newp' = [newp EXCEPT ![t] = 0]
    /\ solo' = [solo EXCEPT ![t] = FALSE]
    /\ firedRunning' = [firedRunning EXCEPT ![t] = FALSE]
    /\ atCall' = [atCall EXCEPT ![t] = NoCall]
    /\ UNCHANGED <<procVars, ncalls, bodyRuns, doRets, sigLog, drainedBy,
                   ignored>>

(* a receive that does not wait for a value *)
CanRecvAlways(p) == TRUE

(* a receive is ready when the buffer holds a value or the channel is closed *)
CanRecv(p) == Len(exitCh[p]) > 0 \/ closed[p]

(* a receive that drops the value and yields nil *)
RecvValZero(p) == Nil

(* a receive that yields the exit result again once the channel is closed *)
RecvValCached(p) == IF Len(exitCh[p]) > 0 THEN Head(exitCh[p]) ELSE status[p]

(* the value a receive yields: the buffered value, or the zero value (nil) *)
RecvVal(p) == IF Len(exitCh[p]) > 0 THEN Head(exitCh[p]) ELSE Nil

(* a receive that leaves the value in the buffer *)
RecvKeep(p, who) ==
    /\ CanRecv(p)
    /\ exitCh' = exitCh
    /\ drainedBy' = [drainedBy EXCEPT ![p] =
                        IF Len(exitCh[p]) > 0 THEN who ELSE @]

(* <-p.exitCh, by the operation who *)
Recv(p, who) ==
    /\ CanRecv(p)
    /\ exitCh' = [exitCh EXCEPT ![p] = IF Len(@) > 0 THEN Tail(@) ELSE @]
    /\ drainedBy' = [drainedBy EXCEPT ![p] =
                        IF Len(exitCh[p]) > 0 THEN who ELSE @]

(* onceError.Do returns r and Restart goes on to launch whatever r is *)
DoReturnUnchecked(t, r) ==
    /\ doRets' = [doRets EXCEPT ![tgt[t]] = @ \cup {r}]
    /\ ret' = [ret EXCEPT ![t] = r]
    /\ expect' = [expect EXCEPT ![t] = "none"]
    /\ got' = [got EXCEPT ![t] = Nil]
    /\ pc' = [pc EXCEPT ![t] = IF op[t] = "Restart" THEN "r_start" ELSE "done"]

(* onceError.Do returns r to the caller: Stop, Kill and Wait return it,    *)
(* Restart returns it when it is an error and goes on to launch otherwise. *)
DoReturn(t, r) ==
    /\ doRets' = [doRets EXCEPT ![tgt[t]] = @ \cup {r}]
    /\ ret' = [ret EXCEPT ![t] = r]
    /\ expect' = [expect EXCEPT ![t] = "none"]
    /\ got' = [got EXCEPT ![t] = Nil]
    /\ pc' = [pc EXCEPT ![t] =
                IF op[t] = "Restart" /\ r = Nil THEN "r_start" ELSE "done"]

(* the function given to once.Do returns r: e.err = fn(), the Once is done *)
BodyReturn(t, r) ==
    /\ once' = [once EXCEPT ![tgt[t]] = "done"]
    /\ onceErr' = [onceErr EXCEPT ![tgt[t]] = r]
    /\ DoReturn(t, r)

(* Process.Wait: select on ctx.Done() and p.exitCh *)
WaitSelect(t) ==
    /\ pc[t] = "select"
    /\ Live
    /\ \/ /\ Recv(tgt[t], "Wait")
          /\ ret' = [ret EXCEPT ![t] = RecvVal(tgt[t])]
          /\ pc' = [pc EXCEPT ![t] = "done"]
          /\ UNCHANGED firedRunning
       \/ /\ fires[t]
          /\ pc' = [pc EXCEPT ![t] = "once"]       \* return p.Kill()
          /\ firedRunning' = [firedRunning EXCEPT ![t] = os[tgt[t]] = "running"]
          /\ UNCHANGED <<exitCh, drainedBy, ret>>
    /\ UNCHANGED <<nprocs, cmd, parent, os, status, pend, reaper,
                   closed, once, onceErr, calls, starts, op, tgt, fires, expect, got,
                   newp, solo, atCall, ncalls, bodyRuns, doRets, sigLog>>
    /\ UNCHANGED <<notified, ignored>>

(* onceError.Do without the shared guard: a caller that finds the function *)
(* already run runs it again instead of returning the recorded error.      *)
OnceDoUnguarded(t) ==
    /\ pc[t] = "once"
    /\ Live
    /\ once[tgt[t]] \in {"idle", "done"}
    /\ once' = [once EXCEPT ![tgt[t]] = "running"]
    /\ bodyRuns' = [bodyRuns EXCEPT ![tgt[t]] = @ + 1]
    /\ pc' = [pc EXCEPT ![t] =
                IF op[t] \in {"Stop", "Restart"} THEN "s_sig" ELSE "k_sig"]
    /\ UNCHANGED <<onceErr, ret, expect, got, doRets>>
    /\ UNCHANGED <<nprocs, cmd, parent, os, status, pend, reaper,
                   exitCh, closed, calls, starts, op, tgt, fires, newp,
                   solo, atCall, firedRunning, ncalls, sigLog, drainedBy>>
    /\ UNCHANGED <<notified, ignored>>

(* onceError.Do: the first caller runs the function, a caller that finds   *)
(* it running blocks, a later caller returns the recorded error.           *)
OnceDo(t) ==
    /\ pc[t] = "once"
    /\ Live
    /\ \/ /\ once[tgt[t]] = "idle"
          /\ once' = [once EXCEPT ![tgt[t]] = "running"]
          /\ bodyRuns' = [bodyRuns EXCEPT ![tgt[t]] = @ + 1]
          /\ pc' = [pc EXCEPT ![t] =
                      IF op[t] \in {"Stop", "Restart"} THEN "s_sig" ELSE "k_sig"]
          /\ UNCHANGED <<onceErr, ret, expect, got, doRets>>
       \/ /\ once[tgt[t]] = "done"
          /\ DoReturn(t, onceErr[tgt[t]])
          /\ UNCHANGED <<once, onceErr, bodyRuns>>
    /\ UNCHANGED <<nprocs, cmd, parent, os, status, pend, reaper,
                   exitCh, closed, calls, starts, op, tgt, fires, newp,
                   solo, atCall, firedRunning, ncalls, sigLog, drainedBy>>
    /\ UNCHANGED <<notified, ignored>>

(* sp == nil never holds for a controller made by Start *)
HasHandle(p) == p \in 1..nprocs

(* Process.stop: sp.Signal(os.Interrupt) *)
StopSignal(t) ==
    /\ pc[t] = "s_sig"
    /\ Live
    /\ IF ~HasHandle(tgt[t])
       THEN BodyReturn(t, Nil) /\ UNCHANGED <<pend, sigLog, ignored>>
       ELSE \E r \in {"ok", "done", "err"} :
          /\ Send(tgt[t], "int", r)
          /\ IF r = "ok"
             THEN /\ expect' = [expect EXCEPT ![t] = "interrupt"]
                  /\ pc' = [pc EXCEPT ![t] = "s_select"]
                  /\ UNCHANGED <<once, onceErr, ret, got, doRets>>
             ELSE IF isProcessDone(r)
             THEN BodyReturn(t, Nil)
             ELSE /\ expect' = [expect EXCEPT ![t] = "killed"]
                  /\ pc' = [pc EXCEPT ![t] = "s_sig2"]
                  /\ UNCHANGED <<once, onceErr, ret, got, doRets>>
    /\ UNCHANGED <<nprocs, cmd, parent, os, status, reaper,
                   exitCh, closed, calls, starts, op, tgt, fires, newp,
                   solo, atCall, firedRunning, ncalls, bodyRuns, drainedBy>>
    /\ UNCHANGED notified

(* Process.stop: the interrupt could not be sent, sp.Signal(os.Kill) *)
StopSignalKill(t) ==
    /\ pc[t] = "s_sig2"
    /\ Live
    /\ \E r \in {"ok", "done", "err"} :
          /\ Send(tgt[t], "kill", r)
          /\ IF r = "ok"
             THEN /\ pc' = [pc EXCEPT ![t] = "s_select"]
                  /\ UNCHANGED <<once, onceErr, ret, expect, got, doRets>>
             ELSE BodyReturn(t, IF r = "done" THEN ErrDone ELSE ErrPerm)
    /\ UNCHANGED <<nprocs, cmd, parent, os, status, reaper,
                   exitCh, closed, calls, starts, op, tgt, fires, newp,
                   solo, atCall, firedRunning, ncalls, bodyRuns, drainedBy>>
    /\ UNCHANGED notified

(* Process.stop: select on p.exitCh and ctx.Done() *)
StopSelect(t) ==
    /\ pc[t] = "s_select"
    /\ Live
    /\ \/ /\ Recv(tgt[t], "stop")
          /\ got' = [got EXCEPT ![t] = RecvVal(tgt[t])]
          /\ pc' = [pc EXCEPT ![t] = "s_close"]
          /\ UNCHANGED firedRunning
       \/ /\ fires[t]
          /\ pc' = [pc EXCEPT ![t] = "k_sig"]      \* return p.kill()
          /\ firedRunning' = [firedRunning EXCEPT ![t] = os[tgt[t]] = "running"]
          /\ UNCHANGED <<exitCh, drainedBy, got>>
    /\ UNCHANGED <<nprocs, cmd, parent, os, status, pend, reaper,
                   closed, once, onceErr, calls, starts, op, tgt, fires, ret, expect,
                   newp, solo, atCall, ncalls, bodyRuns, doRets, sigLog>>
    /\ UNCHANGED <<notified, ignored>>

(* Process.kill: sp.Kill() *)
KillSignal(t) ==
    /\ pc[t] = "k_sig"
    /\ Live
    /\ IF ~HasHandle(tgt[t])
       THEN BodyReturn(t, Nil) /\ UNCHANGED <<pend, sigLog, ignored>>
       ELSE \E r \in {"ok", "done", "err"} :
          /\ Send(tgt[t], "kill", r)
          /\ IF r = "ok"
             THEN /\ pc' = [pc EXCEPT ![t] = "k_recv"]
                  /\ UNCHANGED <<once, onceErr, ret, expect, got, doRets>>
             ELSE BodyReturn(t, IF isProcessDone(r) THEN Nil ELSE ErrPerm)
    /\ UNCHANGED <<nprocs, cmd, parent, os, status, reaper,
                   exitCh, closed, calls, starts, op, tgt, fires, newp,
                   solo, atCall, firedRunning, ncalls, bodyRuns, drainedBy>>
    /\ UNCHANGED notified

(* Process.kill: err := <-p.exitCh *)
KillRecv(t) ==
    /\ pc[t] = "k_recv"
    /\ Live
    /\ Recv(tgt[t], "kill")
    /\ got' = [got EXCEPT ![t] = RecvVal(tgt[t])]
    /\ pc' = [pc EXCEPT ![t] = "k_close"]
    /\ UNCHANGED <<nprocs, cmd, parent, os, status, pend, reaper,
                   closed, once, onceErr, calls, starts, op, tgt, fires, ret, expect,
                   newp, solo, atCall, firedRunning, ncalls, bodyRuns, doRets,
                   sigLog>>
    /\ UNCHANGED <<notified, ignored>>

(* the classification without the expected-error test: every exit error   *)
(* is returned                                                             *)
SurfaceAll(err, expected) == err

(* the error stop and kill return for the exit error err they received *)
Surface(err, expected) ==
    IF err # Nil /\ ~(IF expected = "interrupt" THEN isInterrupt(err)
                      ELSE isKilled(err))
    THEN err ELSE Nil

(* close(p.exitCh), then the classification of the exit error *)
CloseAndReturn(t) ==
    /\ pc[t] \in {"s_close", "k_close"}
    /\ Live
    /\ IF closed[tgt[t]]
       THEN /\ pc' = [pc EXCEPT ![t] = "panic"]
            /\ UNCHANGED <<closed, once, onceErr, ret, expect, got, doRets>>
       ELSE /\ closed' = [closed EXCEPT ![tgt[t]] = TRUE]
            /\ BodyReturn(t, Surface(got[t],
                   IF pc[t] = "s_close" THEN expect[t] ELSE "killed"))
    /\ UNCHANGED <<nprocs, cmd, parent, os, status, pend, reaper,
                   exitCh, calls, starts, op, tgt, fires, newp,
                   solo, atCall, firedRunning, ncalls, bodyRuns, sigLog, drainedBy>>
    /\ UNCHANGED <<notified, ignored>>

(* the rebuilt command without the working directory *)
RestartCmdNoDir(c) ==
    [ExecCommand(c.path, Tail(c.args)) EXCEPT
        !.env = c.env, !.stdout = c.stdout, !.stderr = c.stderr,
        !.stdin = c.stdin, !.extra = c.extra]

(* Process.Restart: the command rebuilt from p.cmd *)
RestartCmd(c) ==
    [ExecCommand(c.path, Tail(c.args)) EXCEPT
        !.env = c.env, !.stdout = c.stdout, !.stderr = c.stderr,
        !.stdin = c.stdin, !.extra = c.extra, !.dir = c.dir]

(* Process.Restart after Stop returned nil: p.cmd.Args[1:] panics on an    *)
(* empty Args; otherwise cmd.Start() on the rebuilt command.               *)
RestartLaunch(t) ==
    /\ pc[t] = "r_start"
    /\ Live
    /\ IF Len(cmd[tgt[t]].args) < 1
       THEN /\ pc' = [pc EXCEPT ![t] = "panic"]
            /\ UNCHANGED <<nprocs, cmd, parent, os, reaper, exitCh, closed,
                           ret, newp>>
       ELSE \/ /\ nprocs < MaxProcs
               /\ newProcess(nprocs + 1, RestartCmd(cmd[tgt[t]]), tgt[t])
               /\ newp' = [newp EXCEPT ![t] = nprocs + 1]
               /\ pc' = [pc EXCEPT ![t] = "done"]
               /\ UNCHANGED ret
            \/ /\ ret' = [ret EXCEPT ![t] = ErrLaunch]
               /\ pc' = [pc EXCEPT ![t] = "done"]
               /\ UNCHANGED <<nprocs, cmd, parent, os, reaper, exitCh, closed,
                              newp>>
    /\ UNCHANGED <<status, pend, once, onceErr, calls, starts, op, tgt,
                   fires, expect, got, histVars>>
    /\ UNCHANGED notified

Next ==
    \/ \E t \in Threads, d \in Descs, o \in {"Start", "Run"}, f \in BOOLEAN :
          CmdStart(t, d, o, f)
    \/ \E t \in Threads, o \in {"Wait", "Stop", "Kill", "Restart"},
          p \in Procs, f \in BOOLEAN : Call(t, o, p, f)
    \/ \E t \in Threads : Retire(t)
    \/ \E t \in Threads : WaitSelect(t)
    \/ \E t \in Threads : OnceDo(t)
    \/ \E t \in Threads : StopSignal(t)
    \/ \E t \in Threads : StopSignalKill(t)
    \/ \E t \in Threads : StopSelect(t)
    \/ \E t \in Threads : KillSignal(t)
    \/ \E t \in Threads : KillRecv(t)
    \/ \E t \in Threads : CloseAndReturn(t)
    \/ \E t \in Threads : RestartLaunch(t)
    \/ \E p \in Procs, s \in {Nil, ErrExit} : NaturalExit(p, s)
    \/ \E p \in Procs : SignalDeath(p)
    \/ \E p \in Procs : SignalNotify(p)
    \/ \E p \in Procs : ReaperReap(p)
    \/ \E p \in Procs : ReaperSend(p)

Spec == Init /\ [][Next]_vars

(* ------------------------------ properties ----------------------------- *)
KillSent(p) ==
    \E i \in 1..Len(sigLog[p]) : sigLog[p][i].sig = "kill" /\ sigLog[p][i].res = "ok"

KillTried(p) == \E i \in 1..Len(sigLog[p]) : sigLog[p][i].sig = "kill"

KillRefused(p) ==
    \E i \in 1..Len(sigLog[p]) : sigLog[p][i].sig = "kill" /\ sigLog[p][i].res = "err"

Exited(p) == os[p] \in {"zombie", "reaped"}

ExitedNaturally(p) == Exited(p) /\ status[p] \in {Nil, ErrExit}

(* C1: on every controller the function given to once.Do (stop or kill)    *)
(* is run by at most one caller, and every return of once.Do, from Stop,   *)
(* Kill, Restart's Stop or Wait's Kill, hands out the one recorded error.  *)
C1_OneTermination ==
    \A p \in Procs :
        /\ bodyRuns[p] <= 1
        /\ Cardinality(doRets[p]) <= 1
        /\ doRets[p] # {} => once[p] = "done" /\ doRets[p] = {onceErr[p]}

(* a Kill caller is handed the non-nil error recorded by another caller's Stop *)
C1_Witness ==
    \E t \in Threads :
        /\ pc[t] = "done" /\ op[t] = "Kill" /\ ret[t] = ErrExit
        /\ sigLog[tgt[t]] # <<>> /\ sigLog[tgt[t]][1].sig = "int"
        /\ atCall[t].once # "idle"

(* C2 as stated, in the runs where the system refuses no kill signal: a   *)
(* Wait that is the only call in progress and whose deadline fires while   *)
(* the process runs returns nil, a kill signal was sent and the process    *)
(* died of it.                                                             *)
C2_WaitDeadlineKills ==
    \A t \in Threads :
        (/\ pc[t] = "done" /\ op[t] \in {"Wait", "Run"} /\ solo[t]
         /\ firedRunning[t] /\ ~KillRefused(tgt[t]))
        => /\ ret[t] = Nil
           /\ KillTried(tgt[t])
           /\ Exited(tgt[t])

(* C2 amended: provided the process has not exited on its own by the time  *)
(* the kill signal is sent and the system does not refuse it, the kill     *)
(* signal is delivered, the process dies of it and Wait returns nil.       *)
C2_WaitDeadlineKillsRunning ==
    \A t \in Threads :
        (/\ pc[t] = "done" /\ op[t] \in {"Wait", "Run"} /\ solo[t]
         /\ firedRunning[t]
         /\ ~ExitedNaturally(tgt[t]) /\ ~KillRefused(tgt[t]))
        => /\ ret[t] = Nil
           /\ KillSent(tgt[t])
           /\ Exited(tgt[t]) /\ status[tgt[t]] = ErrKilled

C2_Witness ==
    \E t \in Threads :
        /\ pc[t] = "done" /\ op[t] = "Wait" /\ solo[t] /\ firedRunning[t]
        /\ ~ExitedNaturally(tgt[t]) /\ ~KillRefused(tgt[t])
        /\ status[tgt[t]] = ErrKilled /\ ret[t] = Nil

(* Stop called after a Wait received the natural exit result *)
StopAfterWait(t) ==
    /\ op[t] = "Stop"
    /\ pc[t] # "idle"
    /\ atCall[t].drained = "Wait"
    /\ ExitedNaturally(tgt[t])

(* the call of t does not block, has returned nil if it has returned, and  *)
(* no signal sent on its controller since it began was delivered           *)
QuietNil(t) ==
    /\ pc[t] \in {"once", "s_sig", "done"}
    /\ pc[t] = "once" =>
          \A u \in Threads : tgt[u] = tgt[t] => pc[u] \notin {"s_select", "k_recv"}
    /\ pc[t] = "done" => ret[t] = Nil
    /\ \A i \in 1..Len(sigLog[tgt[t]]) :
          i > atCall[t].sigs => sigLog[tgt[t]][i].res = "done"

(* C3 as stated: a Stop called after Wait returned the natural exit result *)
(* returns nil without blocking and without a signal being delivered.      *)
C3_StopAfterWait == \A t \in Threads : StopAfterWait(t) => QuietNil(t)

(* C3 amended: the same, provided no Stop or Kill call had entered the     *)
(* Once of the controller when this Stop was called.                       *)
C3_FirstStopAfterWait ==
    \A t \in Threads :
        (StopAfterWait(t) /\ atCall[t].once = "idle") => QuietNil(t)

C3_Witness ==
    \E t \in Threads :
        /\ StopAfterWait(t) /\ atCall[t].once = "idle"
        /\ pc[t] = "done" /\ ret[t] = Nil /\ ~fires[t]
        /\ status[tgt[t]] = ErrExit
        /\ sigLog[tgt[t]] = <<[sig |-> "int", res |-> "done"]>>

(* a Stop that was the only call in progress on a process that ignored the *)
(* interrupt (it reached the process after signal.Notify), and whose       *)
(* deadline fired while the process ran, has returned                      *)
SoloStopFired(t) ==
    /\ pc[t] = "done" /\ op[t] = "Stop" /\ solo[t] /\ firedRunning[t]
    /\ IgnoresInterrupt(cmd[tgt[t]].path) /\ ignored[tgt[t]]

(* C4 as stated, in the runs where the system refuses no kill signal: such *)
(* a Stop has sent a kill signal, the process died of it and Stop          *)
(* returned nil.                                                           *)
C4_StopDeadlineKills ==
    \A t \in Threads :
        (SoloStopFired(t) /\ ~KillRefused(tgt[t]))
        => /\ ret[t] = Nil
           /\ KillTried(tgt[t])
           /\ Exited(tgt[t])

(* C4 amended: such a Stop has called kill after its interrupt. Provided   *)
(* the process has not exited on its own by the time the kill signal is    *)
(* sent and the system does not refuse it, the kill signal is delivered,   *)
(* the process dies of it and Stop returns nil. Otherwise: when the system *)
(* refuses the kill signal Stop returns that error; when the send is       *)
(* answered "process already finished" the process had exited on its own   *)
(* and Stop returns nil; when the send is accepted after the process       *)
(* exited on its own Stop returns the exit result of the process (nil for  *)
(* status 0, the exit error otherwise).                                    *)
C4_StopDeadlineKillsRunning ==
    \A t \in Threads :
        SoloStopFired(t) =>
            LET p == tgt[t]
                k == sigLog[p][Len(sigLog[p])]
            IN  /\ Len(sigLog[p]) = 2 /\ k.sig = "kill"
                /\ (~ExitedNaturally(p) /\ ~KillRefused(p)) =>
                      /\ ret[t] = Nil
                      /\ KillSent(p)
                      /\ Exited(p) /\ status[p] = ErrKilled
                /\ k.res = "err" => ret[t] = ErrPerm
                /\ k.res = "done" => ExitedNaturally(p) /\ ret[t] = Nil
                /\ (k.res = "ok" /\ ExitedNaturally(p)) => ret[t] = status[p]

(* the interrupt was sent and ignored, the deadline fired, the kill ended it *)
C4_Witness ==
    \E t \in Threads :
        /\ SoloStopFired(t) /\ ret[t] = Nil
        /\ status[tgt[t]] = ErrKilled
        /\ sigLog[tgt[t]] = <<[sig |-> "int", res |-> "ok"],
                              [sig |-> "kill", res |-> "ok"]>>

(* what Restart keeps of the descriptor c in the command n it launches *)
SameLaunch(c, n) ==
    /\ n.path = c.path
    /\ Tail(n.args) = Tail(c.args)
    /\ n.env = c.env
    /\ n.stdin = c.stdin /\ n.stdout = c.stdout /\ n.stderr = c.stderr
    /\ n.extra = c.extra
    /\ n.dir = c.dir

(* C5: every process launched by Restart has the path, the arguments       *)
(* after position 0, the environment, the stdio handles, the extra files   *)
(* and the directory of the descriptor it was restarted from, and no step  *)
(* changes the descriptor of an existing controller.                       *)
C5_RestartSameCommand ==
    /\ [](\A q \in 1..nprocs :
             parent[q] > 0 => SameLaunch(cmd[parent[q]], cmd[q]))
    /\ [][\A p \in 1..nprocs : cmd'[p] = cmd[p]]_vars

(* a restarted process whose descriptor has every field set *)
C5_Witness ==
    \E q \in 1..nprocs :
        /\ parent[q] > 0
        /\ cmd[q].dir = "/tmp/d" /\ cmd[q].env = "environ+token"
        /\ cmd[q].stdout = "buf" /\ Len(cmd[q].args) = 3

(* C6: a Restart whose Stop returned an error returns that error and no    *)
(* controller and never reaches the launch; every process launched by a    *)
(* Restart comes from a controller whose recorded Stop result is nil, and  *)
(* there are as many reapers as processes.                                 *)
C6_RestartStopError ==
    /\ \A t \in Threads :
          (op[t] = "Restart" /\ pc[t] \in {"r_start", "done", "panic"}
           /\ onceErr[tgt[t]] # Nil)
          => pc[t] = "done" /\ ret[t] = onceErr[tgt[t]] /\ newp[t] = 0
    /\ \A q \in 1..nprocs :
          parent[q] > 0 => once[parent[q]] = "done" /\ onceErr[parent[q]] = Nil
    /\ \A q \in Procs : (reaper[q] # "none") = (q \in 1..nprocs)

(* Restart returned the exit error its Stop surfaced, and launched nothing *)
C6_Witness ==
    \E t \in Threads :
        /\ op[t] = "Restart" /\ pc[t] = "done" /\ ret[t] = ErrExit
        /\ newp[t] = 0 /\ nprocs = 1

(* C7: Run with a deadline that never fires returns what the reaper        *)
(* deposited, the exit status of the process: nil for status 0, an error   *)
(* for a non-zero status.                                                  *)
C7_RunReturnsExit ==
    \A t \in Threads :
        (op[t] = "Run" /\ pc[t] = "done" /\ ~fires[t] /\ tgt[t] # 0)
        => /\ reaper[tgt[t]] = "done"
           /\ drainedBy[tgt[t]] = "Wait"
           /\ ret[t] = status[tgt[t]]
           /\ status[tgt[t]] \in {Nil, ErrExit}
           /\ (ret[t] = Nil) = (status[tgt[t]] = Nil)

C7_Witness ==
    \E t \in Threads :
        /\ op[t] = "Run" /\ pc[t] = "done" /\ ~fires[t]
        /\ tgt[t] # 0 /\ ret[t] = ErrExit

(* Scheduling: a reaper goroutine that can take a step takes it, and so    *)
(* does the hand-over of a returned call. Nothing makes a process exit,    *)
(* and nothing makes a caller call.                                        *)
Fairness ==
    /\ \A t \in Threads : WF_vars(Retire(t))
    /\ \A p \in Procs : WF_vars(ReaperReap(p)) /\ WF_vars(ReaperSend(p))

FairSpec == Spec /\ Fairness

(* C8: on every controller, once the process has terminated the reaper     *)
(* goroutine ends (it deposits the exit result and returns, or the program *)
(* has ended in a panic), whether or not anybody reads the channel.        *)
C8_ReapersEnd ==
    \A p \in Procs : Exited(p) ~> (reaper[p] = "done" \/ Crashed)

(* two controllers whose processes exited, Stop returned without reading   *)
(* the channel of the first, and both reapers have ended                   *)
C8_Witness ==
    /\ nprocs = 2
    /\ \A p \in Procs : reaper[p] = "done" /\ os[p] = "reaped"
    /\ once[1] = "done" /\ exitCh[1] # <<>>

(* the callers of controller p wait on a Stop whose deadline never fires,  *)
(* for a process that runs and ignores the interrupt it was sent           *)
Wedged(p) ==
    /\ os[p] = "running"
    /\ pend[p] = "int" /\ notified[p]
    /\ \E u \in Threads : tgt[u] = p /\ pc[u] = "s_select" /\ ~fires[u]

(* C9: a Wait or Stop whose deadline fired while the process ran is never  *)
(* left waiting in once.Do with the process running and no kill sent, and  *)
(* nothing able to move before the process exits on its own.               *)
C9_DeadlineKills ==
    \A t \in Threads :
        (firedRunning[t] /\ pc[t] = "once") => ~Wedged(tgt[t])

(* nothing can make the channel of p ready again: it is empty and open,    *)
(* the reaper has deposited, and no caller is about to close it            *)
NeverReady(p) ==
    /\ exitCh[p] = <<>> /\ ~closed[p]
    /\ reaper[p] = "done"
    /\ \A u \in Threads : tgt[u] = p => pc[u] \notin {"s_close", "k_close"}

(* C10: a Wait whose deadline never fires, called after the value of the   *)
(* channel was received by an earlier caller, is never left waiting on a   *)
(* channel that can no longer become ready.                                *)
C10_WaitAfterDrain ==
    \A t \in Threads :
        (op[t] = "Wait" /\ pc[t] = "select" /\ ~fires[t]
         /\ atCall[t].drained # "none")
        => ~NeverReady(tgt[t])

(* signals of class sig that the system accepted on controller p after the *)
(* first n sends                                                           *)
Delivered(p, sig, n) ==
    \E i \in 1..Len(sigLog[p]) :
        i > n /\ sigLog[p][i].sig = sig /\ sigLog[p][i].res = "ok"

(* a Stop that ran the termination body itself, with no other call in      *)
(* progress, received the exit result of the process and has returned      *)
StopReceivedExit(t) ==
    /\ op[t] = "Stop" /\ pc[t] = "done"
    /\ solo[t] /\ atCall[t].once = "idle" /\ atCall[t].drained = "none"
    /\ drainedBy[tgt[t]] \in {"stop", "kill"}

(* C11: a Stop that received the exit error of the process returns nil     *)
(* when that error is the one of a signal class Stop itself delivered      *)
(* (interrupt or kill), and returns the exit error as it is when it is any *)
(* other non-nil error.                                                    *)
C11_StopExpectedExit ==
    \A t \in Threads :
        StopReceivedExit(t) =>
            LET p == tgt[t]
                own == \/ status[p] = ErrInterrupt
                          /\ Delivered(p, "int", atCall[t].sigs)
                       \/ status[p] = ErrKilled
                          /\ Delivered(p, "kill", atCall[t].sigs)
            IN  IF own THEN ret[t] = Nil ELSE ret[t] = status[p]

(* C12: on every controller the reaper deposits at most one value, the     *)
(* exit result, and only after the process has terminated; the value is    *)
(* in the channel or was received by one caller; and a reaper that is      *)
(* about to deposit finds the channel open with room for the value, so the *)
(* deposit never blocks.                                                   *)
C12_OneDeposit ==
    \A p \in Procs :
        /\ Len(exitCh[p]) <= ExitChCap
        /\ reaper[p] \in {"none", "wait"} =>
              exitCh[p] = <<>> /\ drainedBy[p] = "none"
        /\ reaper[p] = "send" =>
              /\ CanSend(p) /\ ~closed[p]
              /\ exitCh[p] = <<>> /\ drainedBy[p] = "none"
              /\ os[p] = "reaped"
        /\ reaper[p] = "done" =>
              /\ os[p] = "reaped"
              /\ (exitCh[p] = <<status[p]>>) # (drainedBy[p] # "none")
              /\ drainedBy[p] # "none" => exitCh[p] = <<>>
        /\ reaper[p] # "panic"

(* the process had exited before Stop was called, Stop and a Restart       *)
(* returned, nobody read the channel, and the one value sits in it         *)
C12_Witness ==
    \E p \in Procs :
        /\ reaper[p] = "done" /\ exitCh[p] = <<ErrExit>>
        /\ once[p] = "done" /\ ncalls[p] >= 2 /\ ~closed[p]
        /\ drainedBy[p] = "none"

(* C13: once the process has terminated, no Stop or Kill call is left      *)
(* waiting for the exit result on a channel that can never become ready    *)
(* again (its single value was received by another caller).                *)
C13_StopKillReturn ==
    \A t \in Threads :
        (/\ op[t] \in {"Stop", "Kill"}
         /\ \/ pc[t] = "k_recv"
            \/ pc[t] = "s_select" /\ ~fires[t]
         /\ Exited(tgt[t]))
        => ~NeverReady(tgt[t])

(* the step of goroutine t is a receive from the channel: Wait's select,   *)
(* stop's select or kill's receive has taken a value (or the zero value)   *)
Received(t) ==
    \/ pc[t] = "select" /\ pc'[t] = "done"
    \/ pc[t] = "s_select" /\ pc'[t] = "s_close"
    \/ pc[t] = "k_recv" /\ pc'[t] = "k_close"

(* C14: in every step, a caller that receives from the channel finds the   *)
(* reaper's value in it or the channel closed; a caller that receives the  *)
(* value is the first to do so and takes it out of the channel, so the     *)
(* value goes to at most one caller, and only after its deposit.           *)
C14_SingleDelivery ==
    [][/\ \A t \in Threads :
             Received(t) =>
                /\ exitCh[tgt[t]] # <<>> \/ closed[tgt[t]]
                /\ exitCh[tgt[t]] # <<>> =>
                      /\ drainedBy[tgt[t]] = "none"
                      /\ reaper[tgt[t]] = "done"
                      /\ exitCh[tgt[t]] = <<status[tgt[t]]>>
                      /\ exitCh'[tgt[t]] = <<>>
                      /\ drainedBy'[tgt[t]] # "none"
       /\ \A p \in Procs :
             drainedBy'[p] # drainedBy[p] =>
                /\ drainedBy[p] = "none"
                /\ \E t \in Threads : tgt[t] = p /\ Received(t)
      ]_vars

(* a Wait received the exit error while a Stop or Kill of another caller   *)
(* was waiting for it on the same controller                               *)
C14_Witness ==
    \E t, u \in Threads :
        /\ t # u /\ tgt[t] = tgt[u]
        /\ op[t] = "Wait" /\ pc[t] = "done" /\ ret[t] = ErrExit
        /\ drainedBy[tgt[t]] = "Wait"
        /\ pc[u] \in {"s_select", "k_recv"}

(* the last signal the termination body of controller p sent was accepted  *)
LastSendAccepted(p) ==
    /\ sigLog[p] # <<>>
    /\ sigLog[p][Len(sigLog[p])].res = "ok"

(* the channel of p is drained and closed, and nothing will be sent to it  *)
DrainedAndClosed(p) ==
    /\ closed[p] /\ exitCh[p] = <<>>
    /\ reaper[p] = "done"

(* C15 as stated: whenever Stop has returned nil, the channel is drained   *)
(* and closed and no further delivery into it can occur.                   *)
C15_StopNilClosed ==
    \A t \in Threads :
        (op[t] = "Stop" /\ pc[t] = "done" /\ ret[t] = Nil)
        => DrainedAndClosed(tgt[t])

(* C15 amended: whenever Stop has returned nil and the last signal sent on *)
(* the controller was accepted by the system (not answered with "process   *)
(* already finished"), the channel is drained and closed and no further    *)
(* delivery into it can occur.                                             *)
C15_StopNilClosedAfterSend ==
    \A t \in Threads :
        (op[t] = "Stop" /\ pc[t] = "done" /\ ret[t] = Nil
         /\ LastSendAccepted(tgt[t]))
        => DrainedAndClosed(tgt[t])

(* Stop escalated to kill after an ignored interrupt and returned nil *)
C15_Witness ==
    \E t \in Threads :
        /\ op[t] = "Stop" /\ pc[t] = "done" /\ ret[t] = Nil
        /\ Len(sigLog[tgt[t]]) = 2 /\ LastSendAccepted(tgt[t])
        /\ DrainedAndClosed(tgt[t]) /\ status[tgt[t]] = ErrKilled

(* a Wait called after a Stop or Kill had received the exit result, closed *)
(* the channel and returned                                                *)
WaitAfterClose(t) ==
    /\ op[t] = "Wait" /\ pc[t] # "idle"
    /\ atCall[t].once = "done"
    /\ atCall[t].drained \in {"stop", "kill"}

(* C16: a Wait called after Stop or Kill drained and closed the channel    *)
(* finds the channel closed, so its receive is ready at once; no signal is *)
(* sent on the controller after the call; and when its deadline does not   *)
(* fire it returns nil, whatever the exit result of the process was.       *)
C16_WaitAfterClose ==
    \A t \in Threads :
        WaitAfterClose(t) =>
            /\ closed[tgt[t]]
            /\ pc[t] = "select" => CanRecv(tgt[t])
            /\ Len(sigLog[tgt[t]]) = atCall[t].sigs
            /\ (pc[t] = "done" /\ ~fires[t]) => ret[t] = Nil

(* Stop had returned the exit error "exit status 7"; the later Wait        *)
(* returned nil                                                            *)
C16_Witness ==
    \E t \in Threads :
        /\ WaitAfterClose(t) /\ pc[t] = "done" /\ ~fires[t]
        /\ ret[t] = Nil
        /\ status[tgt[t]] = ErrExit /\ onceErr[tgt[t]] = ErrExit

(* C17: on every controller an interrupt is only ever the first signal    *)
(* sent, so it is sent at most once, and stop sends nothing before it; a   *)
(* kill that follows an interrupt follows one that failed for another      *)
(* reason than the process being gone (then the kill may be repeated once, *)
(* by the escalation after the deadline), or one that was accepted, and    *)
(* then it is sent by a Stop whose deadline fired and, when accepted,      *)
(* reaches a process whose exit result is not in the channel; and when the *)
(* interrupt is answered "process already finished", nothing more is sent  *)
(* and the recorded result is nil.                                         *)
C17_InterruptThenKill ==
    /\ [](\A p \in Procs :
            LET L == sigLog[p] IN
            /\ Len(L) <= 3
            /\ \A i \in 1..Len(L) : L[i].sig = "int" => i = 1
            /\ Len(L) >= 2 =>
                  /\ L[1].sig = "int" /\ L[1].res \in {"ok", "err"}
                  /\ L[1].res = "ok" => Len(L) = 2
            /\ Len(L) = 3 => L[2].res = "ok"
            /\ (L # <<>> /\ L[1] = [sig |-> "int", res |-> "done"]) =>
                  Len(L) = 1 /\ once[p] = "done" /\ onceErr[p] = Nil
            /\ \A t \in Threads :
                  tgt[t] = p =>
                     /\ pc[t] = "s_sig" => L = <<>>
                     /\ pc[t] \in {"s_sig2", "s_select", "s_close"} =>
                           L # <<>> /\ L[1].sig = "int")
    /\ [][\A p \in Procs :
            (Len(sigLog[p]) >= 1 /\ Len(sigLog'[p]) = Len(sigLog[p]) + 1
             /\ (sigLog[p][1].res = "ok" \/ Len(sigLog[p]) = 2)) =>
                /\ \E t \in Threads :
                      /\ tgt[t] = p /\ pc[t] = "k_sig" /\ fires[t]
                      /\ op[t] \in {"Stop", "Restart"}
                /\ sigLog'[p][Len(sigLog'[p])].sig = "kill"
                /\ sigLog'[p][Len(sigLog'[p])].res = "ok" =>
                      reaper[p] # "done" /\ exitCh[p] = <<>>
         ]_vars

(* the interrupt could not be sent, the kill that followed at once was     *)
(* accepted, and Stop returned nil                                         *)
C17_Witness ==
    \E t \in Threads :
        /\ op[t] = "Stop" /\ pc[t] = "done" /\ ret[t] = Nil
        /\ sigLog[tgt[t]] = <<[sig |-> "int", res |-> "err"],
                              [sig |-> "kill", res |-> "ok"]>>

(* C18: whenever Stop or Kill has returned nil the process of the          *)
(* controller has terminated; a Restart about to launch, and every process *)
(* a Restart launched, has an original whose process has terminated.       *)
C18_NilMeansTerminated ==
    /\ \A t \in Threads :
          /\ (op[t] \in {"Stop", "Kill"} /\ pc[t] = "done" /\ ret[t] = Nil)
                => Exited(tgt[t])
          /\ pc[t] = "r_start" => Exited(tgt[t])
    /\ \A q \in 1..nprocs : parent[q] > 0 => Exited(parent[q])

(* the original died of Restart's interrupt while a Kill of another caller *)
(* waited in once.Do; the replacement runs                                 *)
C18_Witness ==
    \E q \in 1..nprocs :
        /\ parent[q] > 0 /\ os[q] = "running"
        /\ status[parent[q]] = ErrInterrupt
        /\ ncalls[parent[q]] >= 2

(* C19: the reaper never sends on a closed channel; a closed channel is    *)
(* one whose value was received by stop or kill; a step that closes the    *)
(* channel finds it open; and the only step that panics is Restart's       *)
(* slice of the argument vector, never a close or a send.                  *)
C19_CloseOnce ==
    /\ [](\A p \in Procs :
            /\ reaper[p] # "panic"
            /\ closed[p] =>
                  /\ drainedBy[p] \in {"stop", "kill"}
                  /\ exitCh[p] = <<>> /\ reaper[p] = "done")
    /\ [][/\ \A p \in Procs :
                closed'[p] # closed[p] =>
                   ~closed[p] /\ drainedBy[p] \in {"stop", "kill"}
          /\ \A t \in Threads :
                (pc'[t] = "panic" /\ pc[t] # "panic") => pc[t] = "r_start"
         ]_vars

(* the channel was closed by a Stop, and a Kill of another caller is about *)
(* to be handed the recorded result                                        *)
C19_Witness ==
    \E t, u \in Threads :
        /\ t # u /\ tgt[t] = tgt[u]
        /\ op[t] = "Stop" /\ pc[t] = "done"
        /\ op[u] = "Kill" /\ pc[u] = "once"
        /\ closed[tgt[t]]
        /\ drainedBy[tgt[t]] = "stop"

(* C20: a Restart never panics; when its Stop returned nil it returns      *)
(* either the launch error or a controller whose command has the path and  *)
(* the arguments after position 0 of the original, whatever the length of  *)
(* the original's argument vector.                                         *)
C20_RestartAnyArgs ==
    \A t \in Threads :
        op[t] = "Restart" =>
            /\ pc[t] # "panic"
            /\ (pc[t] = "done" /\ ret[t] = Nil) =>
                  /\ newp[t] \in 1..nprocs
                  /\ cmd[newp[t]].path = cmd[tgt[t]].path
                  /\ cmd[newp[t]].args =
                        <<cmd[tgt[t]].path>> \o
                        (IF cmd[tgt[t]].args = <<>> THEN <<>>
                         ELSE Tail(cmd[tgt[t]].args))

====
